---- MODULE Spec2Model ----
(***************************************************************************)
(* Model of the eSewa FastAPI shop: database.py (SQLite store of products, *)
(* orders and order_items) and main.py (HTTP handlers, payment callback).  *)
(*                                                                         *)
(* Money is counted in mills (1/1000 of a currency unit) so that           *)
(* round(x, 2) is a real operation: it rounds to a multiple of 10 mills.   *)
(* The committed SQLite database is the variable db.  create_order is the  *)
(* only multi-statement handler: its connection is the variable co, and    *)
(* its statements interleave with the handlers that run on other           *)
(* connections (the admin handlers run in the thread pool).  Rows written  *)
(* by create_order stay in co until conn.commit(); from its first INSERT   *)
(* to the end of its transaction the connection holds SQLite's write lock, *)
(* and every other writer ends with "database is locked".  One call of     *)
(* create_order is in flight at a time (api_create_order runs it on the    *)
(* event loop).  Customer fields, names and images are carried through     *)
(* unchanged by the code and are left out.                                 *)
(***************************************************************************)
EXTENDS Integers, Sequences, FiniteSets, TLC

VARIABLES db, co, last

vars == <<db, co, last>>

-----------------------------------------------------------------------------
(* Bounds *)

\* Orders that Spec lets be created.
MaxOrders == 2

\* Orders that SpecCheckout lets be created.
MaxCheckoutOrders == 1

\* The largest product id create_product hands out.
MaxProductId == 5

-----------------------------------------------------------------------------
(* Configuration, main.py *)

ESEWA_PRODUCT_CODE == "EPAYTEST"

ESEWA_SECRET_KEY == "8gBm/:&EnhH.1/q"

-----------------------------------------------------------------------------
(* Arithmetic *)

\* round(x, 2) on an amount in mills: nearest multiple of 10, ties to even.
Round2(x) ==
    LET q == x \div 10
        r == x % 10
    IN  IF r < 5 THEN 10 * q
        ELSE IF r > 5 THEN 10 * (q + 1)
        ELSE IF q % 2 = 0 THEN 10 * q ELSE 10 * (q + 1)

\* f"{x:.2f}": the amount printed with two decimals, as a number of cents.
Format2f(x) == Round2(x) \div 10

\* total_amount = round(amount + tax_amount + service_charge + delivery_charge, 2)
TotalAmountNoDelivery(amount, tax, service, delivery) ==
    Round2(amount + tax + service)

TotalAmount(amount, tax, service, delivery) ==
    Round2(amount + tax + service + delivery)

-----------------------------------------------------------------------------
(* The store, database.py *)

\* init_db seeds four products: 59.99, 45.50, 39.00 and 1.00.
SeedProducts == <<59990, 45500, 39000, 1000>>

\* A variant of the status create_order writes.
InitialStatusPending == "PENDING"

\* The status literal of the INSERT of create_order.
InitialStatus == "INITIATED"

InitDb ==
    [ products      |-> [p \in 1..Len(SeedProducts) |-> SeedProducts[p]],
      nextProductId |-> Len(SeedProducts) + 1,
      orders        |-> << >>,
      order_items   |-> << >> ]

\* INSERT INTO products: AUTOINCREMENT never hands out an id twice.
create_product(d, price) ==
    [d EXCEPT !.products = [p \in DOMAIN d.products \cup {d.nextProductId} |->
                               IF p = d.nextProductId THEN price ELSE d.products[p]],
              !.nextProductId = d.nextProductId + 1]

\* A variant of update_product that also rewrites the prices of the order
\* lines that reference the product.
update_product_cascade(d, product_id, price) ==
    [d EXCEPT !.products = [p \in DOMAIN d.products |->
                               IF p = product_id THEN price ELSE d.products[p]],
              !.order_items = [k \in 1..Len(d.order_items) |->
                               IF d.order_items[k].product_id = product_id
                               THEN [d.order_items[k] EXCEPT !.price = price]
                               ELSE d.order_items[k]]]

\* UPDATE products SET price=? WHERE id = ?
update_product(d, product_id, price) ==
    [d EXCEPT !.products = [p \in DOMAIN d.products |->
                               IF p = product_id THEN price ELSE d.products[p]]]

\* DELETE FROM products WHERE id = ?  (foreign keys are not enforced)
delete_product(d, product_id) ==
    [d EXCEPT !.products = [p \in DOMAIN d.products \ {product_id} |-> d.products[p]]]

\* A variant of update_order_status that flips an order that already has the
\* status back to the initial one.
update_order_status_toggle(d, transaction_uuid, status) ==
    [d EXCEPT !.orders = [k \in 1..Len(d.orders) |->
        IF d.orders[k].transaction_uuid = transaction_uuid
        THEN [d.orders[k] EXCEPT !.status =
                 IF d.orders[k].status = status THEN InitialStatus ELSE status]
        ELSE d.orders[k]]]

\* UPDATE orders SET status = ? WHERE transaction_uuid = ?
update_order_status(d, transaction_uuid, status) ==
    [d EXCEPT !.orders = [k \in 1..Len(d.orders) |->
        IF d.orders[k].transaction_uuid = transaction_uuid
        THEN [d.orders[k] EXCEPT !.status = status]
        ELSE d.orders[k]]]

\* SELECT * FROM orders WHERE id = ?  (a sequence of zero or one rows)
get_order_by_id(d, order_id) ==
    IF order_id \in 1..Len(d.orders) THEN <<d.orders[order_id]>> ELSE << >>

\* The transaction_uuid values of the committed orders (the UNIQUE column).
OrderUuids(d) == {d.orders[k].transaction_uuid : k \in 1..Len(d.orders)}

\* conn.commit() of create_order: the pending order row and its item rows
\* become part of the committed database.
CommitOrder(d, order, items) ==
    [d EXCEPT !.orders = Append(d.orders, order),
              !.order_items = d.order_items \o items]

\* A variant of the error path of create_order that keeps what was written.
CommittedOnError(d, order, items) == CommitOrder(d, order, items)

\* create_order raises after its INSERT and never reaches conn.commit(): the
\* connection is dropped and SQLite discards the open transaction.
UncommittedOnError(d, order, items) == d

-----------------------------------------------------------------------------
(* The payment adapter, main.py *)

\* hmac.new(key, msg, sha256) then base64: an ideal MAC, determined by and
\* determining its key and message.
Hmac(key, msg) == <<key, msg>>

\* The f-string of esewa_callback: payload values, except product_code, which
\* is the configured one.
VerifyString(payload) ==
    << payload.transaction_code, payload.status, payload.total_amount,
       payload.transaction_uuid, ESEWA_PRODUCT_CODE, payload.signed_field_names >>

\* What the gateway (or anybody else) signs: the same fields under a product
\* code and a key of the signer's choice.
SignedBy(key, code, payload) ==
    Hmac(key, << payload.transaction_code, payload.status, payload.total_amount,
                 payload.transaction_uuid, code, payload.signed_field_names >>)

\* generate_signature(f"{total_amount:.2f}", transaction_uuid)
generate_signature(total_amount, transaction_uuid) ==
    Hmac(ESEWA_SECRET_KEY, <<total_amount, transaction_uuid, ESEWA_PRODUCT_CODE>>)

\* request.query_params.get("status") == "fail"
FailFlagIgnored(req) == FALSE

FailFlag(req) == req.status = "fail"

\* not encoded_data: the parameter is absent or empty
NoData(req) == req.data.kind \in {"missing", "empty"}

\* base64.b64decode(...).decode(), json.loads(...) and payload.get(...): every
\* exception is swallowed; only a JSON object gets through.  A sequence of
\* zero or one payloads.
DecodePayload(data) == IF data.kind = "object" THEN <<data.payload>> ELSE << >>

\* computed_sig == received_sig
SignatureMatches(payload) ==
    Hmac(ESEWA_SECRET_KEY, VerifyString(payload)) = payload.signature

\* payload.get("status") == "COMPLETE"
StatusIsAnything(payload) == TRUE

StatusIsComplete(payload) == payload.status = "COMPLETE"

\* A variant of the failure path that records the failure on the order.
OnVerificationFailureMarksFailed(d, payload) ==
    update_order_status(d, payload.transaction_uuid, "FAILED")

\* The failure path of esewa_callback: nothing is written.
OnVerificationFailure(d, payload) == d

-----------------------------------------------------------------------------
(* Inputs of the handlers *)

\* Product ids named by carts and by the admin: 4 is seeded ("Lucky
\* Purchase", 1.00), 5 is the first id create_product hands out.
ProductIdInputs == {4, 5}

\* Prices the admin submits: none (0, which admin_save_product refuses) and
\* 1.004.
PriceInputs == {0, 1004}

Item(pid, qty) == [productId |-> pid, quantity |-> qty]

\* Carts: empty, one line, two lines of different products.
CartInputs == { << >>, <<Item(4, 2)>>, <<Item(4, 1), Item(5, 1)>> }

\* (tax_amount, service_charge, delivery_charge)
ChargeInputs == { <<0, 0, 0>>, <<4, 2000, 3000>> }

\* transaction_uuid values a caller may name when at most n orders exist:
\* those of the orders, and one that no order has.
UuidInputs(n) == 1..(n + 1)

\* orderId values of api_initiate_payment; 0 stands for a missing orderId.
OrderIdInputs(n) == 0..(n + 1)

NoPayload ==
    [ transaction_code |-> "", status |-> "", total_amount |-> "",
      transaction_uuid |-> 0, signed_field_names |-> "", signature |-> << >> ]

UnsignedPayloads(uuids) ==
    [ transaction_code : {"000AWEO"}, status : {"COMPLETE", "PENDING"},
      total_amount : {"100.0"}, transaction_uuid : uuids,
      signed_field_names : {"transaction_code,status,total_amount,transaction_uuid,product_code,signed_field_names"},
      signature : {<< >>} ]

OtherStatus(payload) ==
    [payload EXCEPT !.status = IF @ = "COMPLETE" THEN "PENDING" ELSE "COMPLETE"]

\* The signature field of a payload: absent, the gateway's, one made with
\* another key, one made for another product code, or one the gateway made
\* for the same payload with the other status (a tampered status).
SignaturesFor(payload) ==
    { << >>,
      SignedBy(ESEWA_SECRET_KEY, ESEWA_PRODUCT_CODE, payload),
      SignedBy("other-key", ESEWA_PRODUCT_CODE, payload),
      SignedBy(ESEWA_SECRET_KEY, "OTHERCODE", payload),
      SignedBy(ESEWA_SECRET_KEY, ESEWA_PRODUCT_CODE, OtherStatus(payload)) }

Payloads(uuids) ==
    UNION { { [p EXCEPT !.signature = sig] : sig \in SignaturesFor(p) } :
            p \in UnsignedPayloads(uuids) }

\* The data parameter: missing, empty, not decodable as base64 text, not
\* JSON, JSON that is no object, or a JSON object.
DataInputs(uuids) ==
    { [kind |-> k, payload |-> NoPayload] :
        k \in {"missing", "empty", "undecodable", "notjson", "notobject"} }
    \cup { [kind |-> "object", payload |-> p] : p \in Payloads(uuids) }

\* The queries of GET /esewa-callback
CallbackRequests(uuids) == [ status : {"", "fail"}, data : DataInputs(uuids) ]

\* The queries SpecCheckout delivers: with and without the failure flag, no
\* data or a COMPLETE payload that carries the gateway's signature or none.
CheckoutRequests(uuids) ==
    { req \in CallbackRequests(uuids) :
        \/ req.data.kind = "missing"
        \/ /\ req.data.kind = "object"
           /\ req.data.payload.status = "COMPLETE"
           /\ req.data.payload.signature \in
                 { << >>, SignedBy(ESEWA_SECRET_KEY, ESEWA_PRODUCT_CODE, req.data.payload) } }

-----------------------------------------------------------------------------
(* State *)

IdleCo ==
    [ pc |-> "idle", cart |-> << >>, charges |-> <<0, 0, 0>>, i |-> 0,
      amount |-> 0, order |-> << >>, items |-> << >> ]

\* What a handler answered last: its name, the status code or the redirect
\* target, the id or transaction_uuid it was about, and the signature of the
\* payment form (api_initiate_payment only).
Response(op, result, ref) ==
    [op |-> op, result |-> result, ref |-> ref, signature |-> << >>]

Init ==
    /\ db = InitDb
    /\ co = IdleCo
    /\ last = Response("startup", "", 0)

\* create_order has executed an INSERT and has neither committed nor been
\* dropped: its connection holds the write lock of the database file.
Locked == co.pc \in {"items", "failed"}

-----------------------------------------------------------------------------
(* POST /api/order: api_create_order and database.create_order *)

\* The handler calls create_order, which opens its connection.
api_create_order(cart, charges) ==
    /\ co.pc = "idle"
    /\ co' = [IdleCo EXCEPT !.pc = "subtotal", !.cart = cart,
                            !.charges = charges, !.i = 1]
    /\ UNCHANGED <<db, last>>

\* One turn of the subtotal loop: SELECT price of the product; an unknown
\* product closes the connection and raises ValueError (400).
create_order_subtotal ==
    /\ co.pc = "subtotal"
    /\ co.i <= Len(co.cart)
    /\ LET pid == co.cart[co.i].productId
           qty == co.cart[co.i].quantity
       IN  IF pid \notin DOMAIN db.products
           THEN /\ co' = IdleCo
                /\ last' = Response("api_create_order", "400", pid)
           ELSE /\ co' = [co EXCEPT !.amount = @ + db.products[pid] * qty,
                                    !.i = @ + 1]
                /\ last' = last
    /\ UNCHANGED db

\* After the loop: round the subtotal, compute the total, draw the
\* transaction_uuid and INSERT the order row.  uuid4 gives a value no order
\* has, or (with negligible probability) one that an order has, and then the
\* UNIQUE constraint raises IntegrityError (500).
create_order_insert ==
    /\ co.pc = "subtotal"
    /\ co.i > Len(co.cart)
    /\ \E transaction_uuid \in OrderUuids(db) \cup {Len(db.orders) + 1} :
          IF transaction_uuid \in OrderUuids(db)
          THEN /\ co' = IdleCo
               /\ last' = Response("api_create_order", "500", 0)
          ELSE LET amount == Round2(co.amount)
                   order == [ id               |-> Len(db.orders) + 1,
                              transaction_uuid |-> transaction_uuid,
                              amount           |-> amount,
                              tax_amount       |-> co.charges[1],
                              service_charge   |-> co.charges[2],
                              delivery_charge  |-> co.charges[3],
                              total_amount     |-> TotalAmount(amount, co.charges[1],
                                                       co.charges[2], co.charges[3]),
                              status           |-> InitialStatus ]
               IN  /\ co' = [co EXCEPT !.pc = "items", !.i = 1, !.order = <<order>>]
                   /\ last' = last
    /\ UNCHANGED db

\* One turn of the item loop: SELECT price again and INSERT the item row.  A
\* product that is gone makes price_row None, and price_row["price"] raises
\* TypeError: the function is left before conn.commit().
create_order_item ==
    /\ co.pc = "items"
    /\ co.i <= Len(co.cart)
    /\ LET pid == co.cart[co.i].productId
           qty == co.cart[co.i].quantity
       IN  IF pid \notin DOMAIN db.products
           THEN co' = [co EXCEPT !.pc = "failed"]
           ELSE co' = [co EXCEPT !.i = @ + 1,
                          !.items = Append(@, [ order_id   |-> co.order[1].id,
                                                product_id |-> pid,
                                                quantity   |-> qty,
                                                price      |-> db.products[pid] ])]
    /\ UNCHANGED <<db, last>>

\* conn.commit(), and the handler answers with the order id.
create_order_commit ==
    /\ co.pc = "items"
    /\ co.i > Len(co.cart)
    /\ db' = CommitOrder(db, co.order[1], co.items)
    /\ co' = IdleCo
    /\ last' = Response("api_create_order", "200", co.order[1].id)

\* The exception reaches api_create_order (500); the connection object is
\* dropped with its transaction open.
create_order_abort ==
    /\ co.pc = "failed"
    /\ db' = UncommittedOnError(db, co.order[1], co.items)
    /\ co' = IdleCo
    /\ last' = Response("api_create_order", "500", 0)

-----------------------------------------------------------------------------
(* POST /api/initiate-payment *)

\* Reads the order and signs total_amount and transaction_uuid; writes nothing.
api_initiate_payment(order_id) ==
    /\ LET rows == get_order_by_id(db, order_id)
       IN  last' = IF order_id = 0 THEN Response("api_initiate_payment", "400", 0)
                   ELSE IF rows = << >> THEN Response("api_initiate_payment", "404", 0)
                   ELSE [ Response("api_initiate_payment", "200", order_id) EXCEPT
                            !.signature = generate_signature(Format2f(rows[1].total_amount),
                                                          rows[1].transaction_uuid) ]
    /\ UNCHANGED <<db, co>>

-----------------------------------------------------------------------------
(* GET /esewa-callback *)

\* The payment is verified: signature and status are as required.
Verified(payload) == SignatureMatches(payload) /\ StatusIsComplete(payload)

esewa_callback(req) ==
    /\ LET decoded == DecodePayload(req.data)
       IN  IF FailFlag(req) \/ NoData(req) \/ decoded = << >>
           THEN /\ db' = db
                /\ last' = Response("esewa_callback", "/failure.html", 0)
           ELSE IF ~Verified(decoded[1])
           THEN /\ db' = OnVerificationFailure(db, decoded[1])
                /\ last' = Response("esewa_callback", "/failure.html", 0)
           ELSE IF Locked
           \* update_order_status raises "database is locked" inside the try
           THEN /\ db' = db
                /\ last' = Response("esewa_callback", "/failure.html", 0)
           ELSE /\ db' = update_order_status(db, decoded[1].transaction_uuid, "COMPLETED")
                /\ last' = Response("esewa_callback", "/success.html",
                                    decoded[1].transaction_uuid)
    /\ UNCHANGED co

-----------------------------------------------------------------------------
(* Admin *)

\* GET /admin/products?delete_id=
admin_products(delete_id) ==
    /\ IF delete_id = 0
       THEN /\ db' = db
            /\ last' = Response("admin_products", "200", 0)
       ELSE IF Locked
       THEN /\ db' = db
            /\ last' = Response("admin_products", "500", delete_id)
       ELSE /\ db' = delete_product(db, delete_id)
            /\ last' = Response("admin_products", "303", delete_id)
    /\ UNCHANGED co

\* GET /admin/save-product: a missing (or zero) price redirects at once; id 0
\* creates, any other id updates; every exception is swallowed.
admin_save_product(id, price) ==
    /\ db' = IF price = 0 \/ Locked THEN db
             ELSE IF id # 0 THEN update_product(db, id, price)
             ELSE create_product(db, price)
    /\ last' = Response("admin_save_product", "303", id)
    /\ UNCHANGED co

\* GET /admin/orders/confirm
admin_confirm_order(transaction_uuid) ==
    /\ IF Locked
       THEN /\ db' = db
            /\ last' = Response("admin_confirm_order", "500", transaction_uuid)
       ELSE /\ db' = update_order_status(db, transaction_uuid, "COMPLETED")
            /\ last' = Response("admin_confirm_order", "303", transaction_uuid)
    /\ UNCHANGED co

-----------------------------------------------------------------------------

\* The steps of the program with the handlers' inputs drawn from the given
\* sets, while fewer than maxOrders orders exist and product ids stay within
\* MaxProductId.
Step(carts, charges, maxOrders, requests) ==
    \/ \E cart \in carts, ch \in charges :
          Len(db.orders) < maxOrders /\ api_create_order(cart, ch)
    \/ create_order_subtotal
    \/ create_order_insert
    \/ create_order_item
    \/ create_order_commit
    \/ create_order_abort
    \/ \E order_id \in OrderIdInputs(maxOrders) : api_initiate_payment(order_id)
    \/ \E req \in requests : esewa_callback(req)
    \/ \E delete_id \in {0} \cup ProductIdInputs : admin_products(delete_id)
    \/ \E id \in {0} \cup ProductIdInputs, price \in PriceInputs :
          (id = 0 => db.nextProductId <= MaxProductId) /\ admin_save_product(id, price)
    \/ \E transaction_uuid \in UuidInputs(maxOrders) : admin_confirm_order(transaction_uuid)

\* Payment and order status: one cart, every callback query.
Next ==
    Step({<<Item(4, 2)>>}, {<<4, 2000, 3000>>}, MaxOrders,
         CallbackRequests(UuidInputs(MaxOrders)))

Spec == Init /\ [][Next]_vars

\* Checkout: every cart and every charge, fewer callback queries.
NextCheckout ==
    Step(CartInputs, ChargeInputs, MaxCheckoutOrders,
         CheckoutRequests(UuidInputs(MaxCheckoutOrders)))

SpecCheckout == Init /\ [][NextCheckout]_vars

-----------------------------------------------------------------------------
(* Vocabulary of the properties *)

Orders == 1..Len(db.orders)

\* The step is taken by a handler other than create_order and answers r.
\* (Every such handler sets last and leaves co; every statement of
\* create_order changes co.)
Answers(r) == co' = co /\ last' = r

\* The step ends a call of create_order without its commit.
CreateOrderFails ==
    /\ co.pc # "idle"
    /\ co'.pc = "idle"
    /\ ~(last'.op = "api_create_order" /\ last'.result = "200")

\* The conditions under which the payment of a query counts as verified,
\* stated on the query: no failure flag, a data parameter that decodes to a
\* JSON object, the signature the holder of the secret makes for the payload
\* under the configured product code, and status COMPLETE.
PaymentVerified(req) ==
    /\ req.status # "fail"
    /\ req.data.kind = "object"
    /\ req.data.payload.signature =
          SignedBy(ESEWA_SECRET_KEY, ESEWA_PRODUCT_CODE, req.data.payload)
    /\ req.data.payload.status = "COMPLETE"

\* A query that must fail, by the cause of the failure.
FailingRequest(req) ==
    \/ req.status = "fail"
    \/ req.data.kind \in {"missing", "empty"}
    \/ req.data.kind \in {"undecodable", "notjson", "notobject"}
    \/ /\ req.data.kind = "object"
       /\ \/ req.data.payload.signature #
                SignedBy(ESEWA_SECRET_KEY, ESEWA_PRODUCT_CODE, req.data.payload)
          \/ req.data.payload.status # "COMPLETE"

AllRequests == CallbackRequests(UuidInputs(MaxOrders))

\* The step is a run of esewa_callback.
CallbackStep == co' = co /\ last'.op = "esewa_callback"

RECURSIVE LineSum(_, _)
\* The sum of price * quantity over the rows of items that belong to order_id.
LineSum(items, order_id) ==
    IF items = << >> THEN 0
    ELSE (IF Head(items).order_id = order_id
          THEN Head(items).price * Head(items).quantity ELSE 0)
         + LineSum(Tail(items), order_id)

-----------------------------------------------------------------------------
(* Properties *)

\* C1: once an order's status is COMPLETED it is COMPLETED in every later
\* state: no step writes another value over a COMPLETED order or removes it.
C1_CompletedNeverReverts ==
    [][\A k \in Orders :
          db.orders[k].status = "COMPLETED"
          => /\ k <= Len(db'.orders)
             /\ db'.orders[k].transaction_uuid = db.orders[k].transaction_uuid
             /\ db'.orders[k].status = "COMPLETED"]_vars

\* A failing callback has just arrived for a store with a COMPLETED order.
C1_Witness ==
    /\ last = Response("esewa_callback", "/failure.html", 0)
    /\ \E k \in Orders : db.orders[k].status = "COMPLETED"

\* C2: a call of create_order that fails leaves the committed orders and
\* order_items as they were: no statement of create_order other than its
\* commit changes them, and no other step adds a row.
C2_CreateOrderAtomic ==
    [][/\ CreateOrderFails
          => db'.orders = db.orders /\ db'.order_items = db.order_items
       /\ co' # co /\ co'.pc # "idle"
          => db'.orders = db.orders /\ db'.order_items = db.order_items
       /\ co' = co
          => Len(db'.orders) = Len(db.orders) /\ db'.order_items = db.order_items]_vars

\* create_order has failed after its INSERT (a product was deleted between
\* the two loops) and the store holds no order.
C2_Witness ==
    /\ last = Response("api_create_order", "500", 0)
    /\ co.pc = "idle"
    /\ db.orders = << >> /\ db.order_items = << >>
    /\ 4 \notin DOMAIN db.products

\* C3: the callback updates an order, or redirects to the success page, only
\* for a query whose payment is verified.
C3_UpdateOnlyIfVerified ==
    [][(CallbackStep /\ (db' # db \/ last'.result = "/success.html"))
       => \A req \in AllRequests : esewa_callback(req) => PaymentVerified(req)]_vars

\* A verified callback has completed an order.
C3_Witness ==
    /\ last.op = "esewa_callback" /\ last.result = "/success.html"
    /\ \E k \in Orders : /\ db.orders[k].transaction_uuid = last.ref
                         /\ db.orders[k].status = "COMPLETED"

\* C4: a callback that redirects to the failure page changes no row of the
\* store, and every callback with a failure flag, missing or undecodable
\* data, a signature mismatch or a status other than COMPLETE redirects there.
C4_FailingCallbackChangesNothing ==
    [][/\ (CallbackStep /\ last'.result = "/failure.html") => db' = db
       /\ (CallbackStep /\ last'.result # "/failure.html")
          => \A req \in AllRequests : esewa_callback(req) => ~FailingRequest(req)]_vars

\* A failing callback has arrived while an order is INITIATED.
C4_Witness ==
    /\ last = Response("esewa_callback", "/failure.html", 0)
    /\ \E k \in Orders : db.orders[k].status = "INITIATED"

\* C5: right after the callback redirects to the success page, the store
\* holds an order with the payload's transaction_uuid and status COMPLETED.
C5_SuccessMeansCompleted ==
    (last.op = "esewa_callback" /\ last.result = "/success.html")
    => \E k \in Orders : /\ db.orders[k].transaction_uuid = last.ref
                         /\ db.orders[k].status = "COMPLETED"

\* C6: the status of an order changes only from INITIATED to COMPLETED; a
\* verified callback or an admin confirm for a transaction_uuid leaves every
\* order of that uuid COMPLETED, and one delivered when no order of that uuid
\* is INITIATED (a second delivery) leaves the whole store as it is.
C6_StatusChangesOnce ==
    [][/\ \A k \in Orders :
             (k <= Len(db'.orders) /\ db'.orders[k].status # db.orders[k].status)
             => db.orders[k].status = "INITIATED" /\ db'.orders[k].status = "COMPLETED"
       /\ \A u \in UuidInputs(MaxOrders) :
             (\/ Answers(Response("esewa_callback", "/success.html", u))
              \/ Answers(Response("admin_confirm_order", "303", u)))
             => /\ \A k \in 1..Len(db'.orders) :
                      db'.orders[k].transaction_uuid = u
                      => db'.orders[k].status = "COMPLETED"
                /\ (\A k \in Orders : db.orders[k].transaction_uuid = u
                                      => db.orders[k].status # "INITIATED")
                   => db' = db]_vars

\* An order has been completed by a callback and then confirmed by the admin.
C6_Witness ==
    /\ last.op = "admin_confirm_order" /\ last.result = "303"
    /\ \E k \in Orders : /\ db.orders[k].transaction_uuid = last.ref
                         /\ db.orders[k].status = "COMPLETED"

\* total_amount is round(amount + tax_amount + service_charge + delivery_charge, 2)
TotalIsRoundedSum(order) ==
    order.total_amount =
        Round2(order.amount + order.tax_amount + order.service_charge
               + order.delivery_charge)

AmountFields(order) ==
    << order.amount, order.tax_amount, order.service_charge,
       order.delivery_charge, order.total_amount >>

\* C7: every persisted order has total_amount equal to the rounded sum of its
\* four component amounts, and no step changes an amount field of an order.
C7_TotalIsRoundedSum ==
    /\ [](\A k \in Orders : TotalIsRoundedSum(db.orders[k]))
    /\ [][\A k \in Orders :
             /\ k <= Len(db'.orders)
             /\ AmountFields(db'.orders[k]) = AmountFields(db.orders[k])]_vars

\* An order whose total was changed by the rounding has been paid.
C7_Witness ==
    \E k \in Orders :
        /\ db.orders[k].status = "COMPLETED"
        /\ db.orders[k].tax_amount = 4
        /\ db.orders[k].total_amount #
              db.orders[k].amount + db.orders[k].tax_amount
              + db.orders[k].service_charge + db.orders[k].delivery_charge

\* C8: a step that changes the products (update_product, delete_product,
\* create_product) leaves every order row and every order_items row as it is.
C8_ItemPricesAreSnapshots ==
    [][db'.products # db.products
       => db'.orders = db.orders /\ db'.order_items = db.order_items]_vars

\* The admin has changed or deleted a product that an order line references:
\* the line's price is no longer the product's.
C8_Witness ==
    /\ last.op \in {"admin_save_product", "admin_products"}
    /\ \E i \in 1..Len(db.order_items) :
          LET item == db.order_items[i]
          IN  \/ item.product_id \notin DOMAIN db.products
              \/ db.products[item.product_id] # item.price

\* C9: every order is created INITIATED, and every persisted order is
\* INITIATED or COMPLETED.
C9_OnlyInitiatedOrCompleted ==
    /\ co.order # << >> => co.order[1].status = "INITIATED"
    /\ \A k \in Orders : db.orders[k].status \in {"INITIATED", "COMPLETED"}

\* A failing callback has arrived; one order is INITIATED, another COMPLETED.
C9_Witness ==
    /\ last = Response("esewa_callback", "/failure.html", 0)
    /\ \E k \in Orders : db.orders[k].status = "INITIATED"
    /\ \E k \in Orders : db.orders[k].status = "COMPLETED"

\* C10: the amount of every committed order is the rounded sum of price *
\* quantity over its order_items rows.
C10_SubtotalAgreesWithItems ==
    \A k \in Orders :
        db.orders[k].amount = Round2(LineSum(db.order_items, db.orders[k].id))

====
